---- MODULE Spec2Model ----
(***************************************************************************)
(* NotiTron (src/NotiTron.py): a Discord bot that stores deadline tasks in *)
(* a MongoDB collection, lets the task's author pick a second-reminder     *)
(* offset or mark the task complete through message buttons, and runs a    *)
(* once-a-minute background pass (check_tasks_every_minute) that sends the *)
(* second reminders and deletes expired tasks.                             *)
(*                                                                         *)
(* Time is counted in whole hours (the unit of the reminder offsets).      *)
(* An instant is a number of hours on the UTC axis; a wall-clock reading   *)
(* in America/Los_Angeles is a pair of a naive local hour and the UTC      *)
(* offset in force, and an ISO-8601 string is modelled by the fields that  *)
(* decide a string comparison.                                             *)
(***************************************************************************)
EXTENDS Integers, Sequences, FiniteSets, TLC

\* ------------------------------------------------------------------ bounds
MaxTasks == 2   \* number of add_task calls that insert a record
MaxUsers == 2   \* Discord users that interact with the bot
MaxTime  == 2   \* last value of the wall clock, in hours
MaxHours == 3   \* the largest reminder offset a user picks, in hours

TaskIds == 1..MaxTasks
Users   == 1..MaxUsers

\* ------------------------------------------------- time zone and ISO strings
\* pytz.timezone("America/Los_Angeles"): hours west of UTC in summer and winter
PDT == 7
PST == 8
\* the instant at which daylight-saving time ends (clocks fall back one hour)
FallBack == 1

\* utcoffset of the zone at an instant
UtcOffset(instant) == IF instant < FallBack THEN PDT ELSE PST

\* datetime.now(timezone): an aware datetime; micro tells whether its
\* microsecond field is non-zero
Now(instant, micro) ==
    [local |-> instant - UtcOffset(instant), micro |-> micro, off |-> UtcOffset(instant)]

\* timezone.localize(naive) with the default is_dst=False: a local hour that
\* occurs twice (the repeated hour after the fall back) is taken as standard time
Localize(naive) ==
    [local |-> naive, micro |-> FALSE,
     off |-> IF naive + PST >= FallBack THEN PST ELSE PDT]

\* datetime.isoformat(): "YYYY-MM-DDTHH:MM:SS[.ffffff]-HH:MM".  The model keeps
\* what orders two such strings: the local date-time digits, then the character
\* that follows the seconds ("-" = 0 sorts before "." = 1), then the offset digits.
IsoFormat(dt) == <<dt.local, IF dt.micro THEN 1 ELSE 0, dt.off>>

\* datetime.fromisoformat()
FromIsoFormat(s) == [local |-> s[1], micro |-> s[2] = 1, off |-> s[3]]

\* the instant an aware datetime denotes (what aware comparisons compare)
Instant(dt) == dt.local + dt.off

\* str < str, as MongoDB's $lt compares two strings: lexicographic
StrLess(a, b) ==
    \/ a[1] < b[1]
    \/ a[1] = b[1] /\ a[2] < b[2]
    \/ a[1] = b[1] /\ a[2] = b[2] /\ a[3] < b[3]

\* the naive local hours a user can type as due date and due time
DueInputs == {d - PST : d \in 0..MaxTime}

\* for hours in [1, 3, 6, 12]
ReminderHours == {1, 3, 6, 12}

\* the reminder buttons pressed
Pressed == {h \in ReminderHours : h <= MaxHours}

\* ------------------------------------------------------------ the collection
\* tasks_collection is a function from _id to document; a document is a record
\* whose set of fields can grow ($set of a field that does not exist yet).

SetField(doc, field, value) ==
    [f \in DOMAIN doc \cup {field} |-> IF f = field THEN value ELSE doc[f]]

\* insert_one
InsertOne(coll, id, doc) ==
    [i \in DOMAIN coll \cup {id} |-> IF i = id THEN SetField(doc, "_id", id) ELSE coll[i]]

\* an update_one that would insert the document it does not find (upsert)
UpdateOne_Upsert(coll, id, field, value) ==
    IF id \in DOMAIN coll
    THEN [coll EXCEPT ![id] = SetField(@, field, value)]
    ELSE InsertOne(coll, id, [f \in {field} |-> value])

\* update_one({"_id": id}, {"$set": {field: value}}): no upsert, so a missing
\* document stays missing
UpdateOne(coll, id, field, value) ==
    IF id \in DOMAIN coll
    THEN [coll EXCEPT ![id] = SetField(@, field, value)]
    ELSE coll

\* delete_one({"_id": id})
DeleteOne(coll, id) == [i \in DOMAIN coll \ {id} |-> coll[i]]

RECURSIVE Ascending(_)
Ascending(S) ==
    IF S = {} THEN <<>>
    ELSE LET m == CHOOSE x \in S : \A y \in S : x <= y
         IN <<m>> \o Ascending(S \ {m})

\* -------------------------------------------------------------------- state
VARIABLES
    store,       \* tasks_collection: _id -> document
    nextId,      \* the _id the next insert_one assigns (ids are never reused)
    clock,       \* the wall clock, an instant
    views,       \* per task message: the views the running process listens with
    running,     \* the check_tasks_every_minute loops this process has started
    tick,        \* the coroutine of check_tasks_every_minute
    delivered,   \* history: tasks whose second reminder has been delivered
    deletedBy    \* history: how the task's document left the collection

vars == <<store, nextId, clock, views, running, tick, delivered, deletedBy>>

hist == <<delivered, deletedBy>>

\* no view listens for the task's message (rv: the ReminderView sent with the
\* message, aged once the hour it was made in is over; pv: a
\* PersistentCompleteButton; adding: add_task has sent the message and has
\* still to store its id; pend: the hours of the ReminderButton callbacks that
\* have written and have still to confirm; off: the hours whose button the
\* message shows disabled)
NoView ==
    [user_id |-> 0, rv |-> FALSE, pv |-> FALSE, aged |-> FALSE,
     adding |-> FALSE, pend |-> {}, off |-> {}]

\* the loop body is not executing
\* (now and batch are the coroutine's locals: batch holds the _id of the
\* documents the loop has still to notify, the first being the current task;
\* chan tells whether bot.get_channel found the current task's channel and
\* target where its reminder went; ripe .. outcome record what the pass found
\* and did, prev the task whose notification failed in the pass before, last
\* the now of the pass before and back whether some pass of the process has
\* read a now earlier than the pass before it, for the properties)
IdleTick ==
    [pc |-> "idle", now |-> 0, batch |-> <<>>,
     ripe |-> {}, unripe |-> {}, overdue |-> {},
     sent |-> <<>>, attempted |-> {}, marked |-> {}, deleted |-> {},
     failedOn |-> 0, outcome |-> "none", prev |-> 0,
     chan |-> FALSE, target |-> "none", last |-> 0, back |-> FALSE]

\* a finished pass is observed before anything else happens: the step that
\* puts the loop to sleep comes first
Awake == tick.pc # "done"

Init ==
    /\ store = <<>>
    /\ nextId = 1
    /\ clock = 0
    /\ views = [t \in TaskIds |-> NoView]
    /\ running = 0
    /\ tick = IdleTick
    /\ delivered = {}
    /\ deletedBy = [t \in TaskIds |-> "none"]

\* ------------------------------------------------------------------ add_task
\* the document add_task builds (class_name, assignment_name and author are
\* free text that no decision reads; they are left out)
NewTask(user, naive) ==
    [due_date |-> IsoFormat(Localize(naive)),
     user_id |-> user,
     channel_id |-> 1,
     completed |-> FALSE,
     second_reminder_sent |-> FALSE]

\* the users some document or view names
Known == {store[i].user_id : i \in DOMAIN store} \cup {views[t].user_id : t \in TaskIds}

\* add_task, served in the configured guild only: the record is inserted, the
\* embed is sent with a ReminderView and the id of the message is stored.
\* User ids are interchangeable, so a user who appears for the first time
\* gets the least id not in use.
AddTask(user, naive) ==
    /\ Awake
    /\ nextId \in TaskIds
    /\ \A u \in Users : u < user => u \in Known
    /\ store' = UpdateOne(InsertOne(store, nextId, NewTask(user, naive)),
                          nextId, "message_id", nextId)
    /\ nextId' = nextId + 1
    /\ views' = [views EXCEPT ![nextId] = [NoView EXCEPT !.user_id = user, !.rv = TRUE]]
    /\ UNCHANGED <<clock, running, tick, hist>>

\* add_task up to "await message.original_response()": the record is
\* inserted and the embed is sent with a ReminderView
AddTaskShown(user, naive) ==
    /\ Awake
    /\ nextId \in TaskIds
    /\ \A u \in Users : u < user => u \in Known
    /\ store' = InsertOne(store, nextId, NewTask(user, naive))
    /\ nextId' = nextId + 1
    /\ views' = [views EXCEPT ![nextId] =
                   [NoView EXCEPT !.user_id = user, !.rv = TRUE, !.adding = TRUE]]
    /\ UNCHANGED <<clock, running, tick, hist>>

\* add_task from there on: the id of the message is stored
AddTaskSaved(t) ==
    /\ Awake
    /\ views[t].adding
    /\ store' = UpdateOne(store, t, "message_id", t)
    /\ views' = [views EXCEPT ![t].adding = FALSE]
    /\ UNCHANGED <<nextId, clock, running, tick, hist>>

\* ------------------------------------------------------------------- buttons
\* ReminderView.interaction_check
InteractionCheck(view, user) == user = view.user_id

\* a callback that would arm the reminder anew with every press
SetSecondReminder_Rearm(coll, t, hours) ==
    UpdateOne(UpdateOne(coll, t, "second_reminder", hours), t, "second_reminder_sent", FALSE)

\* the write of ReminderButton.callback
SetSecondReminder(coll, t, hours) == UpdateOne(coll, t, "second_reminder", hours)

\* ReminderButton.callback, reached when the ReminderView of the message is
\* alive and lets the user through
ReminderClick(user, t, hours) ==
    /\ Awake
    /\ views[t].rv
    /\ InteractionCheck(views[t], user)
    /\ store' = SetSecondReminder(store, t, hours)
    /\ UNCHANGED <<nextId, clock, views, running, tick, hist>>

\* ReminderButton.callback up to its first await, for a button the message
\* shows enabled: the offset is written
ReminderPress(user, t, hours) ==
    /\ Awake
    /\ views[t].rv
    /\ InteractionCheck(views[t], user)
    /\ hours \notin views[t].off
    /\ store' = SetSecondReminder(store, t, hours)
    /\ views' = [views EXCEPT ![t].pend = @ \cup {hours}]
    /\ UNCHANGED <<nextId, clock, running, tick, hist>>

\* ReminderButton.callback from there on: the confirmation is sent and
\* handle_reminder_confirmation edits the message, which disables every
\* reminder button but the pressed one (ok), or one of the two calls raises
ReminderConfirm(t, hours, ok) ==
    /\ Awake
    /\ hours \in views[t].pend
    /\ views' = [views EXCEPT ![t].pend = @ \ {hours},
                              ![t].off = IF ok THEN @ \cup (ReminderHours \ {hours}) ELSE @]
    /\ UNCHANGED <<store, nextId, clock, running, tick, hist>>

\* a press by a user the interaction check turns away
ReminderRejected(user, t, hours) ==
    /\ Awake
    /\ views[t].rv
    /\ ~InteractionCheck(views[t], user)
    /\ UNCHANGED vars

\* a ReminderView that has timed out listens no more
TimedOut(view) == [view EXCEPT !.rv = FALSE, !.aged = FALSE, !.pend = {}, !.off = {}]

\* ReminderView(timeout=3600) and on_timeout: an hour after it was made, which
\* is in the course of the hour after the one it was made in, the view stops
\* listening; the message is edited and the record is not touched
ViewTimeout(t) ==
    /\ Awake
    /\ views[t].rv
    /\ views[t].aged
    /\ views' = [views EXCEPT ![t] = TimedOut(@)]
    /\ UNCHANGED <<store, nextId, clock, running, tick, hist>>

\* which view's CompleteButton receives a press on "Mark as Complete": the
\* ReminderView sent with the message while this process holds it, else the
\* PersistentCompleteButton that on_ready registered
CompleteHandler(view) ==
    IF view.rv THEN "ReminderView"
    ELSE IF view.pv THEN "PersistentCompleteButton"
    ELSE "none"

\* whether the receiving view lets the user through (discord.ui.View's
\* default interaction_check returns True)
CompleteAllowed(view, user) ==
    \/ CompleteHandler(view) = "PersistentCompleteButton"
    \/ CompleteHandler(view) = "ReminderView" /\ InteractionCheck(view, user)

\* CompleteButton.callback: the record is deleted, then the message is edited
\* to carry no buttons
CompleteClick(user, t) ==
    /\ Awake
    /\ CompleteHandler(views[t]) # "none"
    /\ CompleteAllowed(views[t], user)
    /\ store' = DeleteOne(store, t)
    /\ deletedBy' = IF t \in DOMAIN store
                    THEN [deletedBy EXCEPT ![t] = "complete"] ELSE deletedBy
    /\ views' = [views EXCEPT ![t] = [NoView EXCEPT !.adding = views[t].adding]]
    /\ UNCHANGED <<nextId, clock, running, tick, delivered>>

CompleteRejected(user, t) ==
    /\ Awake
    /\ CompleteHandler(views[t]) # "none"
    /\ ~CompleteAllowed(views[t], user)
    /\ UNCHANGED vars

\* ------------------------------------------------------- process and on_ready
\* the process is stopped and started again: what lived in memory is gone
Restart ==
    /\ Awake
    /\ views' = [t \in TaskIds |-> NoView]
    /\ running' = 0
    /\ tick' = IdleTick
    /\ UNCHANGED <<store, nextId, clock, hist>>

\* check_tasks_every_minute.is_running()
IsRunning(n) == n > 0

\* an on_ready that would start the loop whether or not it runs
StartLoop_Unguarded(n) == n + 1

\* "if not check_tasks_every_minute.is_running(): check_tasks_every_minute.start()"
StartLoop(n) == IF ~IsRunning(n) THEN n + 1 ELSE n

\* on_ready, on every (re)connection: a PersistentCompleteButton is registered
\* for every stored task and the loop is started unless it runs already; an
\* exception (sync or find raising) leaves both undone
OnReady(ok) ==
    /\ Awake
    /\ IF ok
       THEN /\ views' = [t \in TaskIds |->
                          IF t \in DOMAIN store /\ store[t].completed = FALSE
                          THEN [views[t] EXCEPT !.pv = TRUE]
                          ELSE views[t]]
            /\ running' = StartLoop(running)
       ELSE UNCHANGED <<views, running>>
    /\ UNCHANGED <<store, nextId, clock, tick, hist>>

\* an hour passes: the ReminderViews made in the hour before it have timed out
\* by its end
Advance ==
    /\ Awake
    /\ clock < MaxTime
    /\ clock' = clock + 1
    /\ views' = [t \in TaskIds |->
                   IF ~views[t].rv THEN views[t]
                   ELSE IF views[t].aged THEN TimedOut(views[t])
                   ELSE [views[t] EXCEPT !.aged = TRUE]]
    /\ UNCHANGED <<store, nextId, running, tick, hist>>

\* --------------------------------------------------- check_tasks_every_minute
\* the filter of the first find
DueSoonFilter(doc) ==
    /\ doc.completed = FALSE
    /\ "second_reminder" \in DOMAIN doc
    /\ doc.second_reminder_sent = FALSE

\* a loop body without the test of the reminder time
ReminderDue_AnyTime(doc, now) ==
    "second_reminder" \in DOMAIN doc /\ doc.second_reminder # 0

\* "if second_reminder:" and "if now >= reminder_time:"
ReminderDue(doc, now) ==
    LET second_reminder == IF "second_reminder" \in DOMAIN doc
                           THEN doc.second_reminder ELSE 0
        reminder_time == Instant(FromIsoFormat(doc.due_date)) - second_reminder
    IN second_reminder # 0 /\ Instant(now) >= reminder_time

\* a loop that would take a missing second_reminder for one of zero hours
TasksToRemind_MissingIsZero(coll, now) ==
    Ascending({i \in DOMAIN coll :
        /\ coll[i].completed = FALSE
        /\ coll[i].second_reminder_sent = FALSE
        /\ \/ DueSoonFilter(coll[i]) /\ ReminderDue(coll[i], now)
           \/ /\ "second_reminder" \notin DOMAIN coll[i]
              /\ Instant(now) >= Instant(FromIsoFormat(coll[i].due_date))})

\* the documents of tasks_due_soon for which the loop body reaches the send,
\* in the order the loop visits them: find yields the matching documents in
\* natural (insertion) order, and the cursor's first batch holds them all as
\* read when the loop starts
TasksToRemind(coll, now) ==
    Ascending({i \in DOMAIN coll : DueSoonFilter(coll[i]) /\ ReminderDue(coll[i], now)})

\* the filter of the second find: a comparison of two strings
ExpiredFilter(doc, now) ==
    /\ doc.completed = FALSE
    /\ StrLess(doc.due_date, IsoFormat(now))

ExpiredTasks(coll, now) ==
    Ascending({i \in DOMAIN coll : ExpiredFilter(coll[i], now)})

\* what a pass finds at its start, stated on instants: the stored tasks with a
\* second_reminder that is not yet sent and whose reminder time has come ...
Ripe(coll, instant) ==
    {i \in DOMAIN coll :
        /\ "second_reminder" \in DOMAIN coll[i]
        /\ ~coll[i].second_reminder_sent
        /\ instant >= Instant(FromIsoFormat(coll[i].due_date)) - coll[i].second_reminder}

\* ... or has not come ...
Unripe(coll, instant) ==
    {i \in DOMAIN coll :
        /\ "second_reminder" \in DOMAIN coll[i]
        /\ ~coll[i].second_reminder_sent
        /\ instant < Instant(FromIsoFormat(coll[i].due_date)) - coll[i].second_reminder}

\* ... and the stored tasks whose due instant has passed
Overdue(coll, instant) ==
    {i \in DOMAIN coll : Instant(FromIsoFormat(coll[i].due_date)) < instant}

\* the pass ends in "except Exception": nothing after the raising call runs
Abort(tk, why, id) ==
    /\ tick' = [tk EXCEPT !.pc = "done", !.batch = <<>>, !.outcome = why, !.failedOn = id,
                          !.chan = FALSE, !.target = "none"]
    /\ UNCHANGED <<store, deletedBy>>

\* the loop over tasks_due_soon reaches its next task: the channel is looked
\* up (chan: bot.get_channel returns a channel) and fetch_user is awaited
NextTask(tk, coll, batch, chan) ==
    /\ batch # <<>>
    /\ tick' = [tk EXCEPT !.pc = "fetch_user", !.batch = batch,
                          !.attempted = @ \cup {batch[1]},
                          !.chan = chan, !.target = "none"]
    /\ store' = coll
    /\ UNCHANGED deletedBy

\* the loop over tasks_due_soon is over: the expired tasks are found and
\* deleted one by one; when find or a delete_one raises, only the k tasks
\* before it are deleted
Cleanup(tk, coll, batch, micro, k, expOk) ==
    LET expired == ExpiredTasks(coll, Now(tk.now, micro))
        gone == {expired[j] : j \in 1..k}
    IN /\ batch = <<>>
       /\ k <= Len(expired)
       /\ expOk <=> (k = Len(expired))
       /\ store' = [i \in DOMAIN coll \ gone |-> coll[i]]
       /\ deletedBy' = [t \in TaskIds |-> IF t \in gone THEN "expiry" ELSE deletedBy[t]]
       /\ tick' = [tk EXCEPT !.pc = "done", !.batch = <<>>, !.deleted = gone,
                             !.outcome = IF expOk THEN "ok" ELSE "store",
                             !.chan = FALSE, !.target = "none"]

\* the second find raises before anything is deleted
CleanupFails(tk, coll, batch) ==
    /\ batch = <<>>
    /\ store' = coll
    /\ tick' = [tk EXCEPT !.pc = "done", !.batch = <<>>, !.outcome = "store",
                          !.chan = FALSE, !.target = "none"]
    /\ UNCHANGED deletedBy

\* the body from the documents still to visit up to its next await or its end
Resume(tk, coll, batch) ==
    \/ \E chan \in BOOLEAN : NextTask(tk, coll, batch, chan)
    \/ \E micro, expOk \in BOOLEAN, k \in 0..MaxTasks : Cleanup(tk, coll, batch, micro, k, expOk)
    \/ CleanupFails(tk, coll, batch)

\* the body starts: now is read once and the first find runs (or raises);
\* micro tells whether the microsecond field of now is non-zero, which
\* decides nothing before now.isoformat() is compared
TickStart(findOk) ==
    /\ IsRunning(running)
    /\ tick.pc = "idle"
    /\ LET tk == [tick EXCEPT !.now = clock,
                              !.back = @ \/ clock < tick.last,
                              !.ripe = Ripe(store, clock),
                              !.unripe = Unripe(store, clock),
                              !.overdue = Overdue(store, clock)]
       IN IF findOk
          THEN Resume(tk, store, TasksToRemind(store, Now(clock, FALSE)))
          ELSE Abort(tk, "store", 0)
    /\ UNCHANGED <<nextId, clock, views, running, delivered>>

\* await bot.fetch_user(user_id) returns or raises
TickFetchUser(ok) ==
    /\ tick.pc = "fetch_user"
    /\ IF ok
       THEN /\ tick' = [tick EXCEPT !.pc = "send"]
            /\ UNCHANGED <<store, deletedBy>>
       ELSE Abort(tick, "notify", tick.batch[1])
    /\ UNCHANGED <<nextId, clock, views, running, delivered>>

\* "if channel: await channel.send(...) else: await user.send(...)"
SendTarget(chan) == IF chan THEN "channel" ELSE "dm"

\* the awaited send delivers the message, or the call raises
TickSend(ok) ==
    /\ tick.pc = "send"
    /\ LET id == tick.batch[1]
       IN IF ok
          THEN /\ delivered' = delivered \cup {id}
               /\ tick' = [tick EXCEPT !.pc = "mark", !.sent = Append(@, id),
                                        !.target = SendTarget(tick.chan)]
               /\ UNCHANGED <<store, deletedBy>>
          ELSE /\ Abort(tick, "notify", id)
               /\ UNCHANGED delivered
    /\ UNCHANGED <<nextId, clock, views, running>>

\* a pass that would not record the send
MarkSent_Forgotten(coll, id) == coll

\* the update that marks the second reminder as sent
MarkSent(coll, id) == UpdateOne(coll, id, "second_reminder_sent", TRUE)

\* the send has returned: the flag is written (or update_one raises) and the
\* loop goes on
TickMark(updOk) ==
    /\ tick.pc = "mark"
    /\ LET id == tick.batch[1]
       IN IF updOk
          THEN Resume([tick EXCEPT !.marked = @ \cup {id}], MarkSent(store, id),
                      Tail(tick.batch))
          ELSE Abort(tick, "store", id)
    /\ UNCHANGED <<nextId, clock, views, running, delivered>>

\* a loop that would stop once an exception has reached the body's handler
TickSleep_Stops ==
    /\ tick.pc = "done"
    /\ tick' = IdleTick
    /\ running' = IF tick.outcome = "ok" THEN running ELSE 0
    /\ UNCHANGED <<store, nextId, clock, views, hist>>

\* the body has returned; the loop sleeps until the next minute
TickSleep ==
    /\ tick.pc = "done"
    /\ tick' = IdleTick
    /\ UNCHANGED <<store, nextId, clock, views, running, hist>>

\* the same step, keeping for the next pass the task whose notification failed
TickSleepRemember ==
    /\ tick.pc = "done"
    /\ tick' = [IdleTick EXCEPT !.prev = IF tick.outcome = "notify" THEN tick.failedOn ELSE 0]
    /\ UNCHANGED <<store, nextId, clock, views, running, hist>>

\* the same step, keeping for the next pass the now of this one
TickSleepBack ==
    /\ tick.pc = "done"
    /\ tick' = [IdleTick EXCEPT !.last = tick.now, !.back = tick.back]
    /\ UNCHANGED <<store, nextId, clock, views, running, hist>>

\* the wall clock is set back by an hour (datetime.now reads the system
\* clock); the timers of the views do not follow it
ClockBack ==
    /\ Awake
    /\ clock > 0
    /\ clock' = clock - 1
    /\ UNCHANGED <<store, nextId, views, running, tick, hist>>

\* ------------------------------------------------------------- specification
Step ==
    \/ \E u \in Users, naive \in DueInputs : AddTask(u, naive)
    \/ \E u \in Users, t \in TaskIds, h \in Pressed : ReminderClick(u, t, h)
    \/ \E u \in Users, t \in TaskIds, h \in Pressed : ReminderRejected(u, t, h)
    \/ \E u \in Users, t \in TaskIds : CompleteClick(u, t)
    \/ \E u \in Users, t \in TaskIds : CompleteRejected(u, t)
    \/ \E t \in TaskIds : ViewTimeout(t)
    \/ Restart
    \/ \E ok \in BOOLEAN : OnReady(ok)
    \/ Advance
    \/ \E findOk \in BOOLEAN : TickStart(findOk)
    \/ \E ok \in BOOLEAN : TickFetchUser(ok)
    \/ \E ok \in BOOLEAN : TickSend(ok)
    \/ \E updOk \in BOOLEAN : TickMark(updOk)

Next == Step \/ TickSleep

Spec == Init /\ [][Next]_vars

\* the buttons, with add_task and ReminderButton.callback followed from await
\* to await, in a process that is not restarted; the loop is left out
NextButtons ==
    \/ \E u \in Users, naive \in DueInputs : AddTaskShown(u, naive)
    \/ \E t \in TaskIds : AddTaskSaved(t)
    \/ \E u \in Users, t \in TaskIds, h \in Pressed : ReminderPress(u, t, h)
    \/ \E t \in TaskIds, h \in Pressed, ok \in BOOLEAN : ReminderConfirm(t, h, ok)
    \/ \E u \in Users, t \in TaskIds, h \in Pressed : ReminderRejected(u, t, h)
    \/ \E u \in Users, t \in TaskIds : CompleteClick(u, t)
    \/ \E u \in Users, t \in TaskIds : CompleteRejected(u, t)
    \/ \E t \in TaskIds : ViewTimeout(t)
    \/ Advance

SpecButtons == Init /\ [][NextButtons]_vars

\* the loop beside an add_task followed from await to await, within one
\* hour, in a process that is not restarted and whose awaited calls in the
\* pass return
NextAddTask ==
    \/ \E u \in Users, naive \in DueInputs : AddTaskShown(u, naive)
    \/ \E t \in TaskIds : AddTaskSaved(t)
    \/ \E u \in Users, t \in TaskIds, h \in Pressed : ReminderClick(u, t, h)
    \/ \E u \in Users, t \in TaskIds : CompleteClick(u, t)
    \/ OnReady(TRUE)
    \/ TickStart(TRUE)
    \/ TickFetchUser(TRUE)
    \/ TickSend(TRUE)
    \/ TickMark(TRUE)
    \/ TickSleep

SpecAddTask == Init /\ [][NextAddTask]_vars

\* add_task called while no task is stored
AddTaskAlone(user, naive) == DOMAIN store = {} /\ AddTask(user, naive)

\* the loop under a wall clock that moves both ways, observed with the now of
\* the pass before kept: one stored task at a time, never completed, in a
\* process that is not restarted and in which the store update after a send
\* may raise
NextBack ==
    \/ \E u \in Users, naive \in DueInputs : AddTaskAlone(u, naive)
    \/ \E u \in Users, t \in TaskIds, h \in Pressed : ReminderClick(u, t, h)
    \/ OnReady(TRUE)
    \/ Advance
    \/ ClockBack
    \/ TickStart(TRUE)
    \/ TickFetchUser(TRUE)
    \/ TickSend(TRUE)
    \/ \E updOk \in BOOLEAN : TickMark(updOk)
    \/ TickSleepBack

SpecBack == Init /\ [][NextBack]_vars

\* the loop and the buttons, one stored task at a time, in a process that is
\* not restarted; on_ready comes, time passes, the loop wakes up every minute,
\* and a call that is made again and again does not raise every time
NextFair ==
    \/ \E u \in Users, naive \in DueInputs : AddTaskAlone(u, naive)
    \/ \E u \in Users, t \in TaskIds, h \in Pressed : ReminderClick(u, t, h)
    \/ \E u \in Users, t \in TaskIds : CompleteClick(u, t)
    \/ OnReady(TRUE)
    \/ Advance
    \/ \E findOk \in BOOLEAN : TickStart(findOk)
    \/ \E ok \in BOOLEAN : TickFetchUser(ok)
    \/ \E ok \in BOOLEAN : TickSend(ok)
    \/ \E updOk \in BOOLEAN : TickMark(updOk)
    \/ TickSleep

\* the store operations of a step of the pass have all returned
StoreReturns == tick'.outcome \in {"none", "ok"}

Fairness ==
    /\ SF_vars(OnReady(TRUE))
    /\ SF_vars(Advance)
    /\ WF_vars(TickSleep)
    /\ SF_vars(TickStart(TRUE) /\ StoreReturns)
    /\ SF_vars(TickFetchUser(TRUE))
    /\ SF_vars(TickSend(TRUE))
    /\ SF_vars(TickMark(TRUE) /\ StoreReturns)

SpecFair == Init /\ [][NextFair]_vars /\ Fairness

\* the program in a process that is not restarted, observed with the failure
\* of the pass before kept
NextRetry ==
    \/ \E u \in Users, naive \in DueInputs : AddTask(u, naive)
    \/ \E u \in Users, t \in TaskIds, h \in Pressed : ReminderClick(u, t, h)
    \/ \E u \in Users, t \in TaskIds : CompleteClick(u, t)
    \/ \E ok \in BOOLEAN : OnReady(ok)
    \/ Advance
    \/ \E findOk \in BOOLEAN : TickStart(findOk)
    \/ \E ok \in BOOLEAN : TickFetchUser(ok)
    \/ \E ok \in BOOLEAN : TickSend(ok)
    \/ \E updOk \in BOOLEAN : TickMark(updOk)
    \/ TickSleepRemember

SpecRetry == Init /\ [][NextRetry]_vars

\* ------------------------------------------------------------------- claims
Range(seq) == {seq[n] : n \in 1..Len(seq)}

Count(x, seq) == Cardinality({n \in 1..Len(seq) : seq[n] = x})

\* the step in which a second reminder is delivered for task t
Delivers(t) == tick.pc = "send" /\ tick'.pc = "mark" /\ tick.batch[1] = t

Flagged(coll, t) == t \in DOMAIN coll /\ coll[t].second_reminder_sent

HasOffset(coll, t) == t \in DOMAIN coll /\ "second_reminder" \in DOMAIN coll[t]

DueInstant(coll, t) == Instant(FromIsoFormat(coll[t].due_date))

\* C1: over any sequence of passes, restarts and failed store updates, no
\* task has its second reminder delivered twice: a delivery is only ever made
\* for a task that has had none.
C1_AtMostOnce == [][\A t \in TaskIds : Delivers(t) => t \notin delivered]_vars

\* C2: once CompleteButton.callback has deleted a task's record, no reminder
\* is delivered for that task, also when the pass had read the task before
\* and was suspended at an await.
C2_NoSendAfterCompletion ==
    [][\A t \in TaskIds : Delivers(t) => deletedBy[t] # "complete"]_vars

\* C3: a press on a reminder button or on "Mark as Complete" by a user who is
\* not the task's user_id leaves the collection as it was, before and after a
\* restart.
C3_NonOwnerRejected ==
    [][\A t \in DOMAIN store : \A u \in Users \ {store[t].user_id} :
          (CompleteClick(u, t) \/ \E h \in Pressed : ReminderClick(u, t, h))
             => store' = store]_vars

\* C4: a pass in which the notification of one task fails still notifies every
\* other task whose reminder was due at its start, and still deletes the tasks
\* that were overdue at its start.
C4_FailureDoesNotAbortPass ==
    (tick.pc = "done" /\ tick.outcome = "notify") =>
        /\ \A t \in tick.ripe \ {tick.failedOn} : t \in Range(tick.sent)
        /\ \A t \in tick.overdue : t \notin DOMAIN store

\* C5: second_reminder_sent is true only for a task whose reminder has been
\* delivered; a pass whose notification of a task fails neither updates nor
\* deletes that task's record; and the pass after it, if the task is then
\* still stored, unsent and due, attempts the notification again.
C5_FlagAfterSendAndRetry ==
    /\ \A t \in TaskIds : Flagged(store, t) => t \in delivered
    /\ (tick.pc = "done" /\ tick.outcome = "notify") =>
           tick.failedOn \notin tick.marked \cup tick.deleted
    /\ (tick.pc = "done" /\ tick.outcome \in {"ok", "notify"} /\ tick.prev \in tick.ripe) =>
           tick.prev \in tick.attempted

\* a task the loop has dealt with for good: it was inserted, its record is
\* flagged or gone, and no running pass still has it to notify
Settled(t) ==
    /\ t < nextId
    /\ t \in DOMAIN store => store[t].second_reminder_sent
    /\ t \notin Range(tick.batch)

\* C6: a pass without failure delivers exactly one reminder for every task that
\* was stored with a second_reminder, unsent and due at its start, and leaves
\* the record, if still stored, flagged as sent; from then on the task stays
\* settled, and no reminder is delivered for a settled task.
C6_PassEnd ==
    (tick.pc = "done" /\ tick.outcome = "ok") =>
        \A t \in tick.ripe : Count(t, tick.sent) = 1 /\ Settled(t)

C6_SentOnceThenNever ==
    /\ []C6_PassEnd
    /\ [][\A t \in TaskIds : Settled(t) => (Settled(t)' /\ ~Delivers(t))]_vars

C6_Witness ==
    /\ tick.pc = "done" /\ tick.outcome = "ok"
    /\ \E t \in tick.ripe : Flagged(store, t) /\ tick.now < DueInstant(store, t)

\* C7: a pass that starts before the reminder time of a task with an unsent
\* second_reminder does nothing to the task: no notification is attempted or
\* delivered and its record is neither updated nor deleted by the pass.
C7_UnripeUntouched ==
    \A t \in tick.unripe :
        /\ t \notin Range(tick.batch) \cup Range(tick.sent)
        /\ t \notin tick.attempted \cup tick.marked \cup tick.deleted

C7_Witness ==
    /\ tick.pc = "done" /\ tick.outcome = "ok"
    /\ tick.sent # <<>>
    /\ \E t \in tick.unripe : t \in DOMAIN store /\ ~Flagged(store, t)

\* C8: no reminder is delivered for a task without a second_reminder: what a
\* pass delivers had an unsent second_reminder when the pass started, and a
\* stored record without the field has had no delivery and awaits none.
C8_NoOffsetNoReminder ==
    /\ Range(tick.sent) \subseteq tick.ripe \cup tick.unripe
    /\ \A t \in DOMAIN store :
          ~HasOffset(store, t) => t \notin delivered /\ t \notin Range(tick.batch)

C8_Witness ==
    /\ tick.pc = "done" /\ tick.outcome = "ok"
    /\ \E t \in DOMAIN store : ~HasOffset(store, t) /\ tick.now >= DueInstant(store, t)

\* C9: a pass without failure deletes every task that was overdue at its
\* start and not completed, and delivers no notification for such a task.
C9_ExpiredDeletedSilently ==
    (tick.pc = "done" /\ tick.outcome = "ok") =>
        \A t \in tick.overdue :
            deletedBy[t] # "complete" => (t \notin DOMAIN store /\ t \notin Range(tick.sent))

\* C10: second_reminder_sent is false in a record when it is inserted, and no
\* step turns it from true back to false.
C10_SentMonotone ==
    [][\A t \in DOMAIN store' :
          IF t \in DOMAIN store
          THEN store[t].second_reminder_sent => store'[t].second_reminder_sent
          ELSE ~store'[t].second_reminder_sent]_vars

C10_Witness ==
    \E t \in DOMAIN store :
        /\ store[t].second_reminder_sent
        /\ store[t].second_reminder = 1
        /\ DueInstant(store, t) = clock + 2

\* C11: a task that the expiry cleanup removes has had a notification
\* delivered before: the pass has one kind of send, so a due notification
\* would be among the deliveries.
C11_NotifiedBeforeExpiry ==
    \A t \in TaskIds : deletedBy[t] = "expiry" => t \in delivered

\* the pass is suspended at one of its awaits
Suspended == tick.pc \in {"fetch_user", "send", "mark"}

\* C12: a pass that a raising store operation (find, update_one, delete_one)
\* has ended leaves the loop running, and the step after it puts the loop to
\* sleep, from where the next pass can start.
C12_StoreFailureKeepsLoop ==
    /\ [](tick.pc = "done" /\ tick.outcome = "store" => IsRunning(running))
    /\ []((tick.pc = "idle" /\ IsRunning(running)) => ENABLED (\E f \in BOOLEAN : TickStart(f)))
    /\ [][(tick.pc = "done" /\ tick.outcome = "store") =>
             (tick'.pc = "idle" /\ IsRunning(running'))]_vars

C12_Witness ==
    /\ tick.pc = "done" /\ tick.outcome = "store"
    /\ tick.failedOn # 0
    /\ tick.failedOn \in DOMAIN store

\* C13: a process runs at most one loop, however often on_ready comes, and a
\* pass that is suspended at an await is only ever continued (or lost with
\* the process): no other pass starts in its place.
C13_OnePassAtATime ==
    /\ [](running <= 1)
    /\ [][Suspended =>
             \/ tick' = IdleTick /\ running' = 0
             \/ tick'.now = tick.now /\ tick.attempted \subseteq tick'.attempted]_vars

C13_Witness ==
    /\ Suspended
    /\ running = 1
    /\ clock > tick.now
    /\ \E t \in TaskIds : views[t].pv

\* C15: whenever a step writes second_reminder into a stored record, the
\* value is a positive number of hours smaller than the time then left until
\* the due date, so that the reminder time is not already past.
C15_OffsetWithinTimeLeft ==
    [][\A t \in DOMAIN store' :
          (/\ HasOffset(store', t)
           /\ \/ ~HasOffset(store, t)
              \/ store[t].second_reminder # store'[t].second_reminder)
          => /\ store'[t].second_reminder > 0
             /\ clock + store'[t].second_reminder < DueInstant(store', t)]_vars

\* C17: the expiry cleanup deletes a record only when the due instant is not
\* later than the instant of the pass's now, whatever the UTC offsets of the
\* two strings it compares.
C17_ExpiryOnlyAfterDue ==
    [][\A t \in DOMAIN store \ DOMAIN store' :
          deletedBy'[t] = "expiry" => DueInstant(store, t) <= tick'.now]_vars

\* C20: a delivery is one send, to the channel when bot.get_channel found
\* it and to the owner otherwise; and once the channel is found, the pass
\* goes on to that send whether or not the owner can be fetched.
C20_OneSendChannelFirst ==
    /\ [][\A t \in TaskIds :
             Delivers(t) => (/\ Len(tick'.sent) = Len(tick.sent) + 1
                             /\ tick'.target = IF tick.chan THEN "channel" ELSE "dm")]_vars
    /\ [][(tick.pc = "fetch_user" /\ tick.chan) => tick'.outcome # "notify"]_vars

\* C14: once a record holds a second_reminder, no step changes the value,
\* also not the callback of another reminder button pressed before
\* handle_reminder_confirmation has disabled it.
C14_OffsetWrittenOnce ==
    [][\A t \in DOMAIN store \cap DOMAIN store' :
          HasOffset(store, t) =>
              store'[t].second_reminder = store[t].second_reminder]_vars

\* the task was inserted and has not been deleted, by completion or by expiry
Pending(t) == t < nextId /\ deletedBy[t] = "none"

\* C16: a record is stored exactly while its task is pending, and it says
\* completed = false; only insert_one brings a record into the collection, so
\* an update_one that comes after the deletion does not bring it back.
C16_StoredIffPending ==
    /\ [](\A t \in TaskIds : t \in DOMAIN store <=> Pending(t))
    /\ [](\A t \in DOMAIN store : store[t].completed = FALSE)
    /\ [][\A t \in DOMAIN store' \ DOMAIN store : t = nextId]_vars

C16_Witness ==
    \E t \in TaskIds :
        /\ t < nextId
        /\ t \notin DOMAIN store
        /\ views[t].adding
        /\ tick.pc = "mark" /\ tick.batch[1] \notin DOMAIN store

\* C19: in a process whose passes have seen the wall clock move backwards, no
\* second reminder is delivered for a task that has had one, and a pass
\* without failure leaves no task unnotified whose reminder time had come at
\* its start.
C19_BackwardClockHarmless ==
    /\ [][\A t \in TaskIds : (tick.back /\ Delivers(t)) => t \notin delivered]_vars
    /\ []((tick.back /\ tick.pc = "done" /\ tick.outcome = "ok") =>
            \A t \in tick.ripe : t \in Range(tick.sent))

\* a stored task is eventually not stored, when its due date passes before
\* the clock of the model stops
C18_Removed ==
    \A t \in TaskIds :
        (t \in DOMAIN store /\ DueInstant(store, t) < MaxTime) ~> (t \notin DOMAIN store)

\* C18: every stored task is eventually removed, and a record leaves the
\* collection only through a completion by the task's owner or through the
\* cleanup of a pass whose now is not before the due date.
C18_EveryTaskRemoved ==
    /\ C18_Removed
    /\ [][\A t \in DOMAIN store \ DOMAIN store' :
             \/ CompleteClick(store[t].user_id, t)
             \/ deletedBy'[t] = "expiry" /\ DueInstant(store, t) <= tick'.now]_vars

====
